---- MODULE Spec2Model ----
(***************************************************************************)
(* Generic CPU primitives of opennmt::primitives (cpu_generic.h).          *)
(*                                                                         *)
(* The primitives are free functions over caller-owned flat buffers.  The  *)
(* model keeps one flat memory `mem` (address -> value); a buffer is a     *)
(* base address, exactly as a C pointer, so that two arguments naming the  *)
(* same base alias each other.  C arrays are functions over 0..n-1.        *)
(*                                                                         *)
(* A behaviour is: the caller lays out memory and invokes one primitive    *)
(* (pc "idle" -> "done"); gemm_batch and the add/sub and quantize/         *)
(* unquantize round trips take more than one step.  mem0 is the memory at  *)
(* the time of the call, `writes` the stores the primitive performed, in   *)
(* program order, `calls` the calls of gemm made so far and `iter` the     *)
(* loop variable i of gemm_batch.                                          *)
(***************************************************************************)
EXTENDS Integers, Sequences, FiniteSets

VARIABLES pc, fn, args, mem0, mem, writes, ret, calls, iter

vars == <<pc, fn, args, mem0, mem, writes, ret, calls, iter>>

(***************************************************************************)
(* Bounds of the model.                                                    *)
(***************************************************************************)
\* largest extent of one tensor axis
MaxDim == 3

\* longest buffer given to an elementwise transform
MaxLen == 2

\* longest array given to a reduction
MaxRedLen == 4

\* longest array given to topk, beside the documented example
MaxTopkLen == 4

\* longest buffer given to quantize
MaxQuantLen == 2

\* largest batch_size given to gemm_batch
MaxBatch == 2

\* largest of the matrix dimensions m, n, k
MaxMNK == 2

(***************************************************************************)
(* Memory.                                                                 *)
(***************************************************************************)
\* p[i] read; a read outside the allocation yields the marker "oob"
Load(m, addr) == IF addr \in DOMAIN m THEN m[addr] ELSE "oob"

\* The memory after the stores ws (pairs <<address, value>>, in program order):
\* a cell holds the value of the last store to it; a store outside the
\* allocation changes no cell of it, and stays visible in ws.
ApplyWrites(m, ws) ==
  [addr \in DOMAIN m |->
     LET hits == {k \in 1..Len(ws) : ws[k][1] = addr}
     IN IF hits = {} THEN m[addr]
        ELSE ws[CHOOSE k \in hits : \A h \in hits : h <= k][2]]

\* number of stores performed to address addr
WriteCount(ws, addr) == Cardinality({n \in 1..Len(ws) : ws[n][1] = addr})

\* the cells base .. base+n-1 as a C array 0..n-1
Slice(m, base, n) == [i \in 0..(n - 1) |-> m[base + i]]

Init ==
  /\ pc = "idle"
  /\ fn = "none"
  /\ args = <<>>
  /\ mem0 = <<>>
  /\ mem = <<>>
  /\ writes = <<>>
  /\ ret = "none"
  /\ calls = <<>>
  /\ iter = 0

(***************************************************************************)
(* Element types.  The primitives are templates over the element type T;   *)
(* the model instantiates them at int8_t, uint8_t and int.  Operands       *)
(* narrower than int are promoted to int, the operation is done in int     *)
(* (where it cannot overflow) and the result is converted back to T, which *)
(* reduces it modulo 2^8.  At T = int the operation itself can overflow:   *)
(* that is undefined behaviour, whose outcomes are the two's complement    *)
(* result (a plain build) and an abort (a build that traps on overflow).   *)
(* No intermediate value of the model leaves the range of int.             *)
(***************************************************************************)
ElemTypes == {"int8", "uint8", "int32"}

IntMax == 2147483647

IntMin == -2147483647 - 1

TypeMin(T) == CASE T = "int8" -> -128 [] T = "uint8" -> 0 [] T = "int32" -> IntMin

TypeMax(T) == CASE T = "int8" -> 127 [] T = "uint8" -> 255 [] T = "int32" -> IntMax

\* static_cast<T>(v) of an int v
Narrow(T, v) ==
  CASE T = "int8"  -> (IF v % 256 > 127 THEN (v % 256) - 256 ELSE v % 256)
    [] T = "uint8" -> v % 256
    [] T = "int32" -> v

\* v1 + v2 in int leaves the range of int
AddOverflows(v1, v2) == (v2 > 0 /\ v1 > IntMax - v2) \/ (v2 < 0 /\ v1 < IntMin - v2)

\* the two's complement sum of two ints
AddWrap(v1, v2) ==
  IF ~AddOverflows(v1, v2) THEN v1 + v2
  ELSE IF v2 > 0 THEN ((v1 - IntMax) - 1) + ((v2 - IntMax) - 1)
       ELSE ((v1 + IntMax) + 1) + ((v2 + IntMax) + 1)

\* -v in int: the two's complement negation, and whether it overflows
NegOverflows(v) == v = IntMin

NegWrap(v) == IF v = IntMin THEN IntMin ELSE -v

\* v1 - v2 in int
SubOverflows(v1, v2) == (v2 < 0 /\ v1 > IntMax + v2) \/ (v2 > 0 /\ v1 < IntMin + v2)

SubWrap(v1, v2) ==
  IF ~SubOverflows(v1, v2) THEN v1 - v2
  ELSE IF v2 < 0 THEN ((v1 - IntMax) - 1) - ((v2 + IntMax) + 1)
       ELSE ((v1 + IntMax) + 1) - ((v2 - IntMax) - 1)

\* the low 16 bits of u * w, for 16-bit u and w
MulLow16(u, w) == (u * (w % 256) + ((u * (w \div 256)) % 256) * 256) % 65536

\* the two's complement product of two ints, over 16-bit halves: with
\* v = h * 2^16 + l, the low 32 bits of v1 * v2 are those of
\* l1 * l2 + ((h1 * l2 + l1 * h2) mod 2^16) * 2^16
MulWrap(v1, v2) ==
  LET l1 == v1 % 65536
      h1 == (v1 \div 65536) % 65536
      l2 == v2 % 65536
      h2 == (v2 \div 65536) % 65536
      t0 == l1 * (l2 % 256)
      t1 == l1 * (l2 \div 256)
      low == (t0 % 65536) + (t1 % 256) * 256
      carry == (t0 \div 65536) + (t1 \div 256) + (low \div 65536)
      hi == (carry + MulLow16(h1, l2) + MulLow16(l1, h2)) % 65536
  IN IF hi >= 32768 THEN (hi - 65536) * 65536 + (low % 65536)
     ELSE hi * 65536 + (low % 65536)

\* v1 * v2 in int leaves the range of int
MulOverflows(v1, v2) ==
  LET p == MulWrap(v1, v2)
      m == IF v1 < 0 THEN v1 ELSE -v1
  IN CASE v1 = 0 \/ v2 = 0 -> FALSE
       [] v1 = -1 -> v2 = IntMin
       [] v2 = -1 -> v1 = IntMin
       [] v1 = IntMin \/ v2 = IntMin -> TRUE
       [] OTHER -> ~(p % (-m) = 0 /\ p \div (-m) = (IF v1 > 0 THEN v2 ELSE -v2))

\* The value of a C++ expression over T: val is its value where no overflow
\* happens and its two's complement value otherwise, ub says that evaluating
\* it is undefined behaviour.
Value(T, v, overflows) == [val |-> Narrow(T, v), ub |-> T = "int32" /\ overflows]

Plus(T, v1, v2) == Value(T, AddWrap(v1, v2), AddOverflows(v1, v2))

Minus(T, v1, v2) == Value(T, SubWrap(v1, v2), SubOverflows(v1, v2))

Times(T, v1, v2) == Value(T, MulWrap(v1, v2), MulOverflows(v1, v2))

Negate(T, v) == Value(T, NegWrap(v), NegOverflows(v))

\* what undefined behaviour does in a build: the two's complement result, or a trap
Builds == {"wrap", "trap"}

(***************************************************************************)
(* Tensor transpose engine: transpose_2d, transpose_3d, transpose_4d.      *)
(*                                                                         *)
(* Each is a nest of for loops over i0 < dims[0], i1 < dims[1], ... whose  *)
(* body is one load from a and one store to b.  The nest runs its body     *)
(* once per multi-index, in lexicographic order; LoopIndex(dims, n, t) is  *)
(* the multi-index of the t-th run (t from 0).  b lies after a and every   *)
(* offset b_i is >= 0, so no load reads a cell stored by an earlier run:   *)
(* the loads read the memory of the call.                                  *)
(***************************************************************************)
\* all bijections of 0..n-1 (the perm argument)
Perms(n) == {p \in [0..(n - 1) -> 0..(n - 1)] : \A x, y \in 0..(n - 1) : p[x] = p[y] => x = y}

\* number of elements of a tensor of n axes
RECURSIVE NumElems(_, _)
NumElems(dims, n) == IF n = 0 THEN 1 ELSE dims[n - 1] * NumElems(dims, n - 1)

\* runs of the body during one run of loop d's body (the loops nested in it)
RECURSIVE InnerRuns(_, _, _)
InnerRuns(dims, n, d) == IF d = n - 1 THEN 1 ELSE dims[d + 1] * InnerRuns(dims, n, d + 1)

LoopIndex(dims, n, t) == [d \in 0..(n - 1) |-> (t \div InnerRuns(dims, n, d)) % dims[d]]

\* for (size_t i = 0; i < n; ++i) perm_ind[perm[i]] = i;
PermInd(perm, n) == [d \in 0..(n - 1) |-> CHOOSE i \in 0..(n - 1) : perm[i] = d]

\* transpose_2d with dims[1] taken as the row length of b
transpose_2d_SourceRowLength(m, a, dims, b) ==
  LET ws == [t \in 1..NumElems(dims, 2) |->
               LET i == LoopIndex(dims, 2, t - 1)
               IN <<b + (i[1] * dims[1] + i[0]), Load(m, a + (i[0] * dims[1] + i[1]))>>]
  IN [mem |-> ApplyWrites(m, ws), writes |-> ws]

\* transpose_2d's body: b[i1 * dims[0] + i0] = a[i0 * dims[1] + i1]
transpose_2d(m, a, dims, b) ==
  LET ws == [t \in 1..NumElems(dims, 2) |->
               LET i == LoopIndex(dims, 2, t - 1)
               IN <<b + (i[1] * dims[0] + i[0]), Load(m, a + (i[0] * dims[1] + i[1]))>>]
  IN [mem |-> ApplyWrites(m, ws), writes |-> ws]

\* size_t a_stride[3] = {dims[1] * dims[2], dims[2], 1}
AStride3(dims) == [d \in 0..2 |-> CASE d = 0 -> dims[1] * dims[2] [] d = 1 -> dims[2] [] d = 2 -> 1]

\* size_t b_stride[3] = {dims[perm[1]] * dims[perm[2]], dims[perm[2]], 1}
BStride3(dims, perm) ==
  [d \in 0..2 |-> CASE d = 0 -> dims[perm[1]] * dims[perm[2]] [] d = 1 -> dims[perm[2]] [] d = 2 -> 1]

\* perm_b_stride taken from b_stride through perm instead of its inverse perm_ind
PermBStride3Forward(dims, perm) == [d \in 0..2 |-> BStride3(dims, perm)[perm[d]]]

\* size_t perm_b_stride[3] = {b_stride[perm_ind[0]], b_stride[perm_ind[1]], b_stride[perm_ind[2]]}
PermBStride3(dims, perm) == [d \in 0..2 |-> BStride3(dims, perm)[PermInd(perm, 3)[d]]]

\* the body of transpose_3d's loop nest
transpose_3d(m, a, dims, perm, b) ==
  LET pbs == PermBStride3(dims, perm)
      as  == AStride3(dims)
      ws  == [t \in 1..NumElems(dims, 3) |->
                LET i   == LoopIndex(dims, 3, t - 1)
                    b_i == i[0] * pbs[0] + i[1] * pbs[1] + i[2] * pbs[2]
                    a_i == i[0] * as[0] + i[1] * as[1] + i[2] * as[2]
                IN <<b + b_i, Load(m, a + a_i)>>]
  IN [mem |-> ApplyWrites(m, ws), writes |-> ws]

\* size_t a_stride[4] = {dims[1] * dims[2] * dims[3], dims[2] * dims[3], dims[3], 1}
AStride4(dims) ==
  [d \in 0..3 |-> CASE d = 0 -> dims[1] * dims[2] * dims[3]
                    [] d = 1 -> dims[2] * dims[3]
                    [] d = 2 -> dims[3]
                    [] d = 3 -> 1]

\* size_t b_stride[4] = {dims[perm[1]] * dims[perm[2]] * dims[perm[3]], ..., 1}
BStride4(dims, perm) ==
  [d \in 0..3 |-> CASE d = 0 -> dims[perm[1]] * dims[perm[2]] * dims[perm[3]]
                    [] d = 1 -> dims[perm[2]] * dims[perm[3]]
                    [] d = 2 -> dims[perm[3]]
                    [] d = 3 -> 1]

\* size_t perm_b_stride[4] = {b_stride[perm_ind[0]], ..., b_stride[perm_ind[3]]}
PermBStride4(dims, perm) == [d \in 0..3 |-> BStride4(dims, perm)[PermInd(perm, 4)[d]]]

\* the body of transpose_4d's loop nest
transpose_4d(m, a, dims, perm, b) ==
  LET pbs == PermBStride4(dims, perm)
      as  == AStride4(dims)
      ws  == [t \in 1..NumElems(dims, 4) |->
                LET i   == LoopIndex(dims, 4, t - 1)
                    b_i == i[0] * pbs[0] + i[1] * pbs[1] + i[2] * pbs[2] + i[3] * pbs[3]
                    a_i == i[0] * as[0] + i[1] * as[1] + i[2] * as[2] + i[3] * as[3]
                IN <<b + b_i, Load(m, a + a_i)>>]
  IN [mem |-> ApplyWrites(m, ws), writes |-> ws]

\* The caller's layout for a transpose of count elements: a at 0 holding the
\* distinct values 1..count, b right after it holding 0, and one guard cell
\* after b.
TransposeMem(count) == [x \in 0..(2 * count) |-> IF x < count THEN x + 1 ELSE 0]

Transpose2d ==
  /\ pc = "idle"
  /\ \E dims \in [0..1 -> 1..MaxDim] :
       LET count == NumElems(dims, 2)
           m0 == TransposeMem(count)
           run == transpose_2d(m0, 0, dims, count)
       IN /\ pc' = "done"
          /\ fn' = "transpose_2d"
          /\ args' = [a |-> 0, b |-> count, dims |-> dims, n |-> 2]
          /\ mem0' = m0
          /\ mem' = run.mem
          /\ writes' = run.writes
          /\ UNCHANGED <<ret, calls, iter>>

Transpose3d ==
  /\ pc = "idle"
  /\ \E dims \in [0..2 -> 1..MaxDim], perm \in Perms(3) :
       LET count == NumElems(dims, 3)
           m0 == TransposeMem(count)
           run == transpose_3d(m0, 0, dims, perm, count)
       IN /\ pc' = "done"
          /\ fn' = "transpose_3d"
          /\ args' = [a |-> 0, b |-> count, dims |-> dims, perm |-> perm, n |-> 3]
          /\ mem0' = m0
          /\ mem' = run.mem
          /\ writes' = run.writes
          /\ UNCHANGED <<ret, calls, iter>>

Transpose4d ==
  /\ pc = "idle"
  /\ \E dims \in [0..3 -> 1..MaxDim], perm \in Perms(4) :
       LET count == NumElems(dims, 4)
           m0 == TransposeMem(count)
           run == transpose_4d(m0, 0, dims, perm, count)
       IN /\ pc' = "done"
          /\ fn' = "transpose_4d"
          /\ args' = [a |-> 0, b |-> count, dims |-> dims, perm |-> perm, n |-> 4]
          /\ mem0' = m0
          /\ mem' = run.mem
          /\ writes' = run.writes
          /\ UNCHANGED <<ret, calls, iter>>

NextTranspose == Transpose2d \/ Transpose3d \/ Transpose4d

SpecTranspose == Init /\ [][NextTranspose]_vars

(***************************************************************************)
(* Properties of the transposes.                                           *)
(***************************************************************************)
\* the multi-indices of a tensor with extents ext over n axes
MultiIndices(ext, n) ==
  {j \in [0..(n - 1) -> 0..(MaxDim - 1)] : \A d \in 0..(n - 1) : j[d] < ext[d]}

\* row-major linear offset of multi-index j, by Horner's rule
RECURSIVE RowMajor(_, _, _)
RowMajor(j, ext, n) == IF n = 0 THEN 0 ELSE RowMajor(j, ext, n - 1) * ext[n - 1] + j[n - 1]

\* the addresses of the output tensor b
OutputCells == args.b .. (args.b + NumElems(args.dims, args.n) - 1)

\* every position of b is stored exactly once and nothing else is stored
WritesCoverOutputOnce ==
  /\ \A addr \in OutputCells : WriteCount(writes, addr) = 1
  /\ \A k \in 1..Len(writes) : writes[k][1] \in OutputCells

\* C1: after transpose_3d or transpose_4d with a bijective perm, b read as a
\* row-major tensor of extents dims[perm[0]], dims[perm[1]], ... holds at
\* every output multi-index j the element of a at the source multi-index i
\* with i[perm[t]] = j[t]; every position of b is written exactly once and
\* no position outside b is written.
C1_TransposePermutesAxes ==
  (pc = "done" /\ fn \in {"transpose_3d", "transpose_4d"}) =>
    LET n == args.n
        odims == [t \in 0..(n - 1) |-> args.dims[args.perm[t]]]
    IN /\ \A j \in MultiIndices(odims, n) :
            LET i == [d \in 0..(n - 1) |-> j[CHOOSE t \in 0..(n - 1) : args.perm[t] = d]]
            IN mem[args.b + RowMajor(j, odims, n)] = mem0[args.a + RowMajor(i, args.dims, n)]
       /\ WritesCoverOutputOnce

\* a 4d transpose by a permutation that is not its own inverse, over a
\* tensor whose axes differ in extent
C1_Witness ==
  /\ pc = "done"
  /\ fn = "transpose_4d"
  /\ args.perm = [d \in 0..3 |-> (d + 1) % 4]
  /\ args.dims[0] = 2 /\ args.dims[1] = 3 /\ args.dims[2] = 1 /\ args.dims[3] = 2
  /\ Slice(mem, args.b, 12) # Slice(mem0, args.a, 12)

\* C9: transpose_2d is a true matrix transpose: b[i1*d0 + i0] = a[i0*d1 + i1]
\* for every i0 < d0 and i1 < d1, every position of b written exactly once;
\* dims = [2,3] with a = [1,2,3,4,5,6] yields b = [1,4,2,5,3,6].
C9_Transpose2dIsTranspose ==
  (pc = "done" /\ fn = "transpose_2d") =>
    LET d0 == args.dims[0]
        d1 == args.dims[1]
    IN /\ \A i0 \in 0..(d0 - 1), i1 \in 0..(d1 - 1) :
            mem[args.b + i1 * d0 + i0] = mem0[args.a + i0 * d1 + i1]
       /\ WritesCoverOutputOnce
       /\ (d0 = 2 /\ d1 = 3 /\ Slice(mem0, args.a, 6) = [x \in 0..5 |-> x + 1])
            => Slice(mem, args.b, 6) = [x \in 0..5 |-> <<1, 4, 2, 5, 3, 6>>[x + 1]]

\* the 2 x 3 example has run
C9_Witness ==
  /\ pc = "done"
  /\ fn = "transpose_2d"
  /\ args.dims[0] = 2 /\ args.dims[1] = 3
  /\ Slice(mem0, args.a, 6) = [x \in 0..5 |-> x + 1]
  /\ mem[args.b + 1] = 4

(***************************************************************************)
(* Reduction engine: sum, mean, max_element, max.                          *)
(***************************************************************************)
\* std::accumulate(array, array + size, static_cast<T>(0)): init = init + *first,
\* left to right, the accumulator being a T.  acc is [val, ub, trapped].
RECURSIVE Accumulate(_, _, _, _, _, _)
Accumulate(T, m, array, size, i, acc) ==
  IF i >= size \/ acc.trapped THEN acc
  ELSE LET r == Plus(T, acc.val, Load(m, array + i))
       IN Accumulate(T, m, array, size, i + 1,
                     [val |-> r.val, ub |-> acc.ub \/ r.ub, trapped |-> acc.trapped])

\* the same, aborting at the first overflow (a trapping build)
RECURSIVE AccumulateTrap(_, _, _, _, _, _)
AccumulateTrap(T, m, array, size, i, acc) ==
  IF i >= size \/ acc.trapped THEN acc
  ELSE LET r == Plus(T, acc.val, Load(m, array + i))
       IN AccumulateTrap(T, m, array, size, i + 1,
                         [val |-> r.val, ub |-> acc.ub \/ r.ub, trapped |-> r.ub])

\* T sum(const T* array, size_t size)
sum(T, build, m, array, size) ==
  IF build = "trap"
  THEN AccumulateTrap(T, m, array, size, 0, [val |-> 0, ub |-> FALSE, trapped |-> FALSE])
  ELSE Accumulate(T, m, array, size, 0, [val |-> 0, ub |-> FALSE, trapped |-> FALSE])

\* size_t is 64 bits wide; a size_t value is held as four 16-bit limbs, most
\* significant first.  static_cast<size_t>(v) of an int v (sign extension):
ToSizeT(v) ==
  IF v >= 0 THEN <<0, 0, v \div 65536, v % 65536>>
  ELSE <<65535, 65535, (v \div 65536) + 65536, v % 65536>>

\* unsigned division of a size_t by a size_t n that fits one limb
DivSizeT(u, n) ==
  LET r1 == u[1] % n
      c2 == r1 * 65536 + u[2]
      r2 == c2 % n
      c3 == r2 * 65536 + u[3]
      r3 == c3 % n
      c4 == r3 * 65536 + u[4]
  IN <<u[1] \div n, c2 \div n, c3 \div n, c4 \div n>>

\* static_cast<T>(u) of a size_t u: its low bits
FromSizeT(T, u) ==
  CASE T = "int8"  -> Narrow("int8", u[4])
    [] T = "uint8" -> Narrow("uint8", u[4])
    [] T = "int32" -> (IF u[3] >= 32768 THEN (u[3] - 65536) * 65536 + u[4]
                       ELSE u[3] * 65536 + u[4])

\* sum(array, size) / size with the int operand converted to size_t
\* (the usual arithmetic conversions), the quotient converted to T
MeanQuotient(T, total, size) == FromSizeT(T, DivSizeT(ToSizeT(total), size))

\* T mean(const T* array, size_t size) { return sum(array, size) / size; }
mean(T, build, m, array, size) ==
  LET s == sum(T, build, m, array, size)
  IN [val |-> MeanQuotient(T, s.val, size), ub |-> s.ub, trapped |-> s.trapped]

\* the loop keeping the later of two equal elements: if (!(*first < *largest)) ...
RECURSIVE MaxElementLoopLast(_, _, _, _, _)
MaxElementLoopLast(m, array, size, largest, first) ==
  IF first >= size THEN largest
  ELSE IF ~(Load(m, array + first) < Load(m, array + largest))
       THEN MaxElementLoopLast(m, array, size, first, first + 1)
       ELSE MaxElementLoopLast(m, array, size, largest, first + 1)

\* std::max_element's loop: if (*largest < *first) largest = first;
RECURSIVE MaxElementLoop(_, _, _, _, _)
MaxElementLoop(m, array, size, largest, first) ==
  IF first >= size THEN largest
  ELSE IF Load(m, array + largest) < Load(m, array + first)
       THEN MaxElementLoop(m, array, size, first, first + 1)
       ELSE MaxElementLoop(m, array, size, largest, first + 1)

\* size_t max_element(const T* array, size_t size)
max_element(m, array, size) == IF size = 0 THEN 0 ELSE MaxElementLoop(m, array, size, 0, 1)

\* T max(const T* array, size_t size) { return array[max_element(array, size)]; }
max(m, array, size) == Load(m, array + max_element(m, array, size))

\* element values the arrays are drawn from
RedVals(T) ==
  CASE T = "int8"  -> {-3, 2, 3, 5}
    [] T = "uint8" -> {2, 3, 5, 200}
    [] T = "int32" -> {-3, 3, 5, IntMax}

\* the caller's array of size elements at address 0, and one cell after it
RedMems(T, size) ==
  {[x \in 0..size |-> IF x < size THEN arr[x] ELSE 0] : arr \in [0..(size - 1) -> RedVals(T)]}

Sum ==
  /\ pc = "idle"
  /\ \E T \in ElemTypes, size \in 1..MaxRedLen, build \in Builds :
       \E m \in RedMems(T, size) :
         LET r == sum(T, build, m, 0, size)
         IN /\ pc' = IF r.trapped THEN "aborted" ELSE "done"
            /\ fn' = "sum"
            /\ args' = [T |-> T, array |-> 0, size |-> size, ub |-> r.ub]
            /\ mem0' = m
            /\ mem' = m
            /\ ret' = IF r.trapped THEN "none" ELSE r.val
            /\ UNCHANGED <<writes, calls, iter>>

Mean ==
  /\ pc = "idle"
  /\ \E T \in ElemTypes, size \in 1..MaxRedLen, build \in Builds :
       \E m \in RedMems(T, size) :
         LET r == mean(T, build, m, 0, size)
         IN /\ pc' = IF r.trapped THEN "aborted" ELSE "done"
            /\ fn' = "mean"
            /\ args' = [T |-> T, array |-> 0, size |-> size, ub |-> r.ub]
            /\ mem0' = m
            /\ mem' = m
            /\ ret' = IF r.trapped THEN "none" ELSE r.val
            /\ UNCHANGED <<writes, calls, iter>>

MaxElement ==
  /\ pc = "idle"
  /\ \E T \in ElemTypes, size \in 1..MaxRedLen :
       \E m \in RedMems(T, size) :
         /\ pc' = "done"
         /\ fn' = "max_element"
         /\ args' = [T |-> T, array |-> 0, size |-> size, ub |-> FALSE]
         /\ mem0' = m
         /\ mem' = m
         /\ ret' = max_element(m, 0, size)
         /\ UNCHANGED <<writes, calls, iter>>

Max ==
  /\ pc = "idle"
  /\ \E T \in ElemTypes, size \in 1..MaxRedLen :
       \E m \in RedMems(T, size) :
         /\ pc' = "done"
         /\ fn' = "max"
         /\ args' = [T |-> T, array |-> 0, size |-> size, ub |-> FALSE]
         /\ mem0' = m
         /\ mem' = m
         /\ ret' = max(m, 0, size)
         /\ UNCHANGED <<writes, calls, iter>>

NextReduce == Sum \/ Mean \/ MaxElement \/ Max

SpecReduce == Init /\ [][NextReduce]_vars

(***************************************************************************)
(* Properties of the reductions.                                           *)
(***************************************************************************)
\* the array of the call
CallArray == Slice(mem0, args.array, args.size)

\* the exact (unbounded) sum of the first n elements of arr
RECURSIVE ExactSum(_, _)
ExactSum(arr, n) == IF n = 0 THEN 0 ELSE ExactSum(arr, n - 1) + arr[n - 1]

\* integer division truncating toward zero
TruncDiv(v, n) == IF v >= 0 THEN v \div n ELSE -((-v) \div n)

\* the sum of the call's array is representable in its element type
SumRepresentable ==
  /\ ~args.ub
  /\ ExactSum(CallArray, args.size) \in TypeMin(args.T)..TypeMax(args.T)

\* C4: for every integer element type, signed types and negative values
\* included, and every size >= 1 whose sum is representable in T, mean returns
\* sum / size truncated toward zero; for n copies of v, sum returns n*v and
\* mean returns v.
C4_MeanIsTruncatedQuotient ==
  (pc = "done" /\ fn \in {"sum", "mean"} /\ SumRepresentable) =>
    LET total == ExactSum(CallArray, args.size)
        v == CallArray[0]
        copies == \A i \in 0..(args.size - 1) : CallArray[i] = v
    IN /\ fn = "sum" => ret = total
       /\ (fn = "sum" /\ copies) => ret = args.size * v
       /\ fn = "mean" => ret = TruncDiv(total, args.size)
       /\ (fn = "mean" /\ copies) => ret = v

\* C5: max_element returns the lowest index i with array[i] >= array[j] for
\* every j (max_element([3,5,5,2]) = 1), and max returns array[i] for that i.
C5_MaxElementIsFirstMaximum ==
  (pc = "done" /\ fn \in {"max_element", "max"}) =>
    LET arr == CallArray
        idx == 0..(args.size - 1)
        isMax(i) == \A j \in idx : arr[i] >= arr[j]
        first == CHOOSE i \in idx : isMax(i) /\ \A h \in idx : isMax(h) => i <= h
    IN /\ fn = "max_element" => ret = first
       /\ fn = "max" => ret = arr[first]
       /\ (fn = "max_element" /\ args.size = 4 /\ arr = [x \in 0..3 |-> <<3, 5, 5, 2>>[x + 1]])
            => ret = 1

\* max_element has run on [3,5,5,2], whose maximum occurs twice
C5_Witness ==
  /\ pc = "done"
  /\ fn = "max_element"
  /\ args.size = 4
  /\ CallArray = [x \in 0..3 |-> <<3, 5, 5, 2>>[x + 1]]
  /\ ret = 1

(***************************************************************************)
(* Top-k selector.                                                         *)
(***************************************************************************)
\* the comparison with its operands exchanged: x[i1] < x[i2]
comp_Ascending(m, x, i1, i2) == Load(m, x + i1) < Load(m, x + i2)

\* const auto comp = [&x](I i1, I i2) { return x[i1] > x[i2]; };
comp(m, x, i1, i2) == Load(m, x + i1) > Load(m, x + i2)

\* std::iota(indices, indices + size, 0): the stores, in order
Iota(indices, size) == [j \in 1..size |-> <<indices + (j - 1), j - 1>>]

\* a rearrangement whose first k entries are left in any order
SelectOutcomes(m, x, k, size) ==
  {p \in Perms(size) :
     \A i \in 0..(k - 1), j \in k..(size - 1) : ~comp(m, x, p[j], p[i])}

\* std::partial_sort(indices, indices + k, indices + size, comp) on the range
\* 0, 1, ..., size-1: the first k entries are the k first elements of the
\* range sorted by comp, in sorted order; the order of the rest, and of
\* elements equivalent under comp, is unspecified.  Every arrangement the
\* library may leave is an outcome.
PartialSortOutcomes(m, x, k, size) ==
  {p \in Perms(size) :
     /\ \A i, j \in 0..(k - 1) : i < j => ~comp(m, x, p[j], p[i])
     /\ \A i \in 0..(k - 1), j \in k..(size - 1) : ~comp(m, x, p[j], p[i])}

\* the stores that leave arrangement p in indices[0 .. size)
Arrange(indices, size, p) == [j \in 1..size |-> <<indices + (j - 1), p[j - 1]>>]

\* element values of x
TopkVals == {1, 3, 5}

\* the documented example topk([1,5,3,5,2], k = 2)
TopkExample == [j \in 0..4 |-> <<1, 5, 3, 5, 2>>[j + 1]]

\* the arrays given to topk
TopkArrays ==
  UNION {[0..(size - 1) -> TopkVals] : size \in 1..MaxTopkLen} \cup {TopkExample}

\* The caller's layout: x at 0, the indices buffer (size entries, not yet
\* written: -1) right after it, and one cell after that.
TopkMem(xs, size) ==
  [a \in 0..(2 * size) |-> IF a < size THEN xs[a] ELSE -1]

\* void topk(const T* x, I* indices, size_t k, size_t size)
Topk ==
  /\ pc = "idle"
  /\ \E xs \in TopkArrays :
       LET size == Cardinality(DOMAIN xs)
           m == TopkMem(xs, size)
       IN \E k \in 0..size :
            \E p \in PartialSortOutcomes(m, 0, k, size) :
              LET ws == Iota(size, size) \o Arrange(size, size, p)
              IN /\ pc' = "done"
                 /\ fn' = "topk"
                 /\ args' = [x |-> 0, indices |-> size, k |-> k, size |-> size]
                 /\ mem0' = m
                 /\ mem' = ApplyWrites(m, ws)
                 /\ writes' = ws
                 /\ UNCHANGED <<ret, calls, iter>>

NextTopk == Topk

SpecTopk == Init /\ [][NextTopk]_vars

(***************************************************************************)
(* Properties of topk.                                                     *)
(***************************************************************************)
\* the first n entries of the indices buffer after the call
Returned(n) == {mem[args.indices + j] : j \in 0..(n - 1)}

\* C2: for 1 <= k <= size the first k entries of indices are k pairwise
\* distinct indices in [0, size), and x[r] >= x[s] for every returned r and
\* every non-returned s; for x = [1,5,3,5,2], k = 2 the values at the returned
\* indices are exactly {5, 5}.
C2_TopkReturnsLargest ==
  (pc = "done" /\ fn = "topk" /\ args.k >= 1) =>
    /\ Returned(args.k) \subseteq 0..(args.size - 1)
    /\ Cardinality(Returned(args.k)) = args.k
    /\ \A r \in Returned(args.k) : \A s \in (0..(args.size - 1)) \ Returned(args.k) :
         mem0[args.x + r] >= mem0[args.x + s]
    /\ (Slice(mem0, args.x, args.size) = TopkExample /\ args.k = 2)
         => /\ mem0[args.x + mem[args.indices]] = 5
            /\ mem0[args.x + mem[args.indices + 1]] = 5

\* the documented example has run and returned the two indices holding 5
C2_Witness ==
  /\ pc = "done"
  /\ fn = "topk"
  /\ args.k = 2
  /\ Slice(mem0, args.x, args.size) = TopkExample
  /\ Returned(2) = {1, 3}

\* C10: topk writes size entries of the indices buffer, not k: for every
\* k <= size, indices[0 .. size) is afterwards a permutation of 0..size-1, the
\* k selected indices first in non-increasing order of x value; x is unchanged.
C10_TopkWritesSizeEntries ==
  (pc = "done" /\ fn = "topk") =>
    /\ Returned(args.size) = 0..(args.size - 1)
    /\ {writes[n][1] : n \in 1..Len(writes)} = args.indices .. (args.indices + args.size - 1)
    /\ \A j \in 1..(args.k - 1) :
         mem0[args.x + mem[args.indices + j - 1]] >= mem0[args.x + mem[args.indices + j]]
    /\ \A r \in Returned(args.k) : \A s \in Returned(args.size) \ Returned(args.k) :
         mem0[args.x + r] >= mem0[args.x + s]
    /\ Slice(mem, args.x, args.size) = Slice(mem0, args.x, args.size)
    /\ mem[args.indices + args.size] = mem0[args.indices + args.size]

\* a call with k < size that left entries beyond the first k written
C10_Witness ==
  /\ pc = "done"
  /\ fn = "topk"
  /\ args.size = 4
  /\ args.k = 2
  /\ mem0[args.indices + 3] = -1
  /\ mem[args.indices + 3] \in 0..3
  /\ mem0[args.x + mem[args.indices]] > mem0[args.x + mem[args.indices + 1]]

(***************************************************************************)
(* float.  A float of the model is an integer count of units of 1/unit,    *)
(* unit a power of two fixed per call (16: sixteenths, 1: whole numbers),  *)
(* of at most 24 significant bits, below 2^31 in magnitude.  Every         *)
(* operation computes the exact result and rounds it to the nearest float, *)
(* ties to even, as IEEE 754 single precision does.  Exact results that    *)
(* are whole counts of units, or have at least 24 significant bits before  *)
(* their fraction, round to whole counts of units; the inputs of the model *)
(* are chosen so that no other exact result arises ("offgrid").            *)
(***************************************************************************)
\* number of bits of n >= 0
RECURSIVE BitLen(_)
BitLen(n) == IF n = 0 THEN 0 ELSE 1 + BitLen(n \div 2)

RECURSIVE Pow2(_)
Pow2(e) == IF e = 0 THEN 1 ELSE 2 * Pow2(e - 1)

\* the float nearest to p / q for p >= 0, q > 0
RoundNonNeg(p, q) ==
  LET whole == p \div q
      rest  == p % q
      g     == IF BitLen(whole) > 24 THEN Pow2(BitLen(whole) - 24) ELSE 1
      low   == (whole \div g) * g
      twice == 2 * ((whole - low) * q + rest)
  IN IF rest # 0 /\ BitLen(whole) < 24 THEN "offgrid"
     ELSE IF twice < g * q THEN low
     ELSE IF twice > g * q THEN low + g
     ELSE IF (whole \div g) % 2 = 0 THEN low ELSE low + g

\* the float nearest to p / q, q > 0
RoundToFloat(p, q) == IF p >= 0 THEN RoundNonNeg(p, q) ELSE -RoundNonNeg(-p, q)

\* v1 * v2, v1 + v2, v1 - v2, v1 / v2 in float
FMul(unit, v1, v2) == RoundToFloat(v1 * v2, unit)

FAdd(v1, v2) == RoundToFloat(v1 + v2, 1)

FSub(v1, v2) == RoundToFloat(v1 - v2, 1)

FDiv(unit, v1, v2) ==
  IF v2 > 0 THEN RoundToFloat(v1 * unit, v2) ELSE RoundToFloat(-(v1 * unit), -v2)

\* the integer part of a float (conversion to an integer type truncates)
FloatToInt(unit, v) == IF v >= 0 THEN v \div unit ELSE -((-v) \div unit)

\* v * scale + shift in float: the product is rounded and then the sum, or,
\* where the compiler contracts the expression into a fused multiply-add,
\* only the sum
MulAdd(func, v) ==
  IF func.contract
    THEN RoundToFloat(v * func.scale + func.shift * func.unit, func.unit)
    ELSE FAdd(FMul(func.unit, v, func.scale), func.shift)

\* static_cast<Out>(v * scale + shift), In float, Out int8_t; a value whose
\* integer part is outside int8_t makes the conversion undefined
QuantizeElem(func, v) ==
  LET t == FloatToInt(func.unit, MulAdd(func, v))
  IN [val |-> Narrow("int8", t), ub |-> t \notin -128..127]

\* (static_cast<Out>(v) + shift) / scale
UnquantizeElemAddingShift(func, v) ==
  [val |-> FDiv(func.unit, FAdd(v * func.unit, func.shift), func.scale), ub |-> FALSE]

\* (static_cast<Out>(v) - shift) / scale, In int8_t, Out float
UnquantizeElem(func, v) ==
  [val |-> FDiv(func.unit, FSub(v * func.unit, func.shift), func.scale), ub |-> FALSE]

(***************************************************************************)
(* Elementwise transform engine: unary_transform, binary_transform and     *)
(* add, sub, mul, relu built on them.  The loops read and write the one    *)
(* memory, index by index, so a store is seen by every later load of the   *)
(* same cell.  st is [mem, writes, trapped].                               *)
(***************************************************************************)
\* y[i] = v
Store(st, addr, v) ==
  [mem     |-> IF addr \in DOMAIN st.mem THEN [st.mem EXCEPT ![addr] = v] ELSE st.mem,
   writes  |-> Append(st.writes, <<addr, v>>),
   trapped |-> st.trapped]

\* the state a primitive starts from
Enter(m) == [mem |-> m, writes |-> <<>>, trapped |-> FALSE]

\* undefined behaviour ends a trapping build
Trap(st) == [st EXCEPT !.trapped = TRUE]

\* the lambdas handed to unary_transform:
\*   [&a](const T& v) { return v + a; }   [&a](const T& v) { return v * a; }
\*   [](const T& v) { return v > 0 ? v : static_cast<T>(0); }
\*   [&scale, &shift](const In& v) { return static_cast<Out>(v * scale + shift); }
\*   [&scale, &shift](const In& v) { return (static_cast<Out>(v) - shift) / scale; }
ApplyUnary(T, func, v) ==
  CASE func.op = "plus_a"     -> Plus(T, v, func.a)
    [] func.op = "times_a"    -> Times(T, v, func.a)
    [] func.op = "relu"       -> Value(T, IF v > 0 THEN v ELSE 0, FALSE)
    [] func.op = "quantize"   -> QuantizeElem(func, v)
    [] func.op = "unquantize" -> UnquantizeElem(func, v)

\* the lambdas handed to binary_transform: v1 + v2, v1 - v2, v1 * v2
ApplyBinary(T, func, v1, v2) ==
  CASE func.op = "plus"  -> Plus(T, v1, v2)
    [] func.op = "minus" -> Minus(T, v1, v2)
    [] func.op = "times" -> Times(T, v1, v2)

\* for (size_t i = 0; i < size; ++i) y[i] = func(x[i]);
RECURSIVE UnaryLoop(_, _, _, _, _, _, _, _)
UnaryLoop(T, build, st, x, y, size, func, i) ==
  IF i >= size \/ st.trapped THEN st
  ELSE LET r == ApplyUnary(T, func, Load(st.mem, x + i))
       IN IF r.ub /\ build = "trap" THEN Trap(st)
          ELSE UnaryLoop(T, build, Store(st, y + i, r.val), x, y, size, func, i + 1)

unary_transform(T, build, st, x, y, size, func) == UnaryLoop(T, build, st, x, y, size, func, 0)

\* for (size_t i = 0; i < size; ++i) c[i] = func(a[i], b[i]);
RECURSIVE BinaryLoop(_, _, _, _, _, _, _, _, _)
BinaryLoop(T, build, st, a, b, c, size, func, i) ==
  IF i >= size \/ st.trapped THEN st
  ELSE LET r == ApplyBinary(T, func, Load(st.mem, a + i), Load(st.mem, b + i))
       IN IF r.ub /\ build = "trap" THEN Trap(st)
          ELSE BinaryLoop(T, build, Store(st, c + i, r.val), a, b, c, size, func, i + 1)

\* copy(a, c, size), as the first pass of an accumulating transform
RECURSIVE CopyLoop(_, _, _, _, _)
CopyLoop(st, a, c, size, i) ==
  IF i >= size THEN st ELSE CopyLoop(Store(st, c + i, Load(st.mem, a + i)), a, c, size, i + 1)

\* binary_transform written as copy(a, c) followed by c[i] = func(c[i], b[i])
binary_transform_Accumulating(T, build, st, a, b, c, size, func) ==
  BinaryLoop(T, build, CopyLoop(st, a, c, size, 0), c, b, c, size, func, 0)

binary_transform(T, build, st, a, b, c, size, func) ==
  BinaryLoop(T, build, st, a, b, c, size, func, 0)

\* void add(T a, T* y, size_t size)
add_scalar(T, build, st, a, y, size) ==
  unary_transform(T, build, st, y, y, size, [op |-> "plus_a", a |-> a])

\* void add(const T* a, const T* b, T* c, size_t size)
add(T, build, st, a, b, c, size) == binary_transform(T, build, st, a, b, c, size, [op |-> "plus"])

\* void add(const T* x, T* y, size_t size) { return add(x, y, y, size); }
add_inplace(T, build, st, x, y, size) == add(T, build, st, x, y, y, size)

\* void sub(T a, T* y, size_t size) { T a_rev = -a; add(a_rev, y, size); }
sub_scalar(T, build, st, a, y, size) ==
  LET a_rev == Negate(T, a)
  IN IF a_rev.ub /\ build = "trap" THEN Trap(st)
     ELSE add_scalar(T, build, st, a_rev.val, y, size)

\* sub with the lambda of add (v1 + v2)
sub_Adding(T, build, st, a, b, c, size) ==
  binary_transform(T, build, st, a, b, c, size, [op |-> "plus"])

\* void sub(const T* a, const T* b, T* c, size_t size)
sub(T, build, st, a, b, c, size) == binary_transform(T, build, st, a, b, c, size, [op |-> "minus"])

\* void mul(T a, T* y, size_t size)
mul_scalar(T, build, st, a, y, size) ==
  unary_transform(T, build, st, y, y, size, [op |-> "times_a", a |-> a])

\* void mul(const T* a, const T* b, T* c, size_t size)
mul(T, build, st, a, b, c, size) == binary_transform(T, build, st, a, b, c, size, [op |-> "times"])

\* void mul(const T* x, T* y, size_t size) { return mul(x, y, y, size); }
mul_inplace(T, build, st, x, y, size) == mul(T, build, st, x, y, y, size)

\* void relu(const T* x, T* y, size_t size)
relu(T, build, st, x, y, size) == unary_transform(T, build, st, x, y, size, [op |-> "relu"])

\* void relu(T* x, size_t size) { return relu(x, x, size); }
relu_inplace(T, build, st, x, size) == relu(T, build, st, x, x, size)

\* element values of the buffers and of the scalar operand
ArithVals(T) ==
  CASE T = "int8"  -> {-128, -1, 127}
    [] T = "uint8" -> {1, 2, 255}
    [] T = "int32" -> {IntMin, -1, IntMax}

\* The caller's three buffers of MaxLen cells each: X and Y hold size input
\* elements, Z is a fresh output buffer (0 everywhere).
BufX == 0

BufY == MaxLen

BufZ == 2 * MaxLen

ArithMems(T, size) ==
  {[addr \in 0..(3 * MaxLen - 1) |->
      IF addr < MaxLen THEN (IF addr < size THEN xs[addr] ELSE 0)
      ELSE IF addr < 2 * MaxLen THEN (IF addr - MaxLen < size THEN ys[addr - MaxLen] ELSE 0)
      ELSE 0] :
   xs \in [0..(size - 1) -> ArithVals(T)], ys \in [0..(size - 1) -> ArithVals(T)]}

\* the lambdas of unary_transform
UnaryOps == {"plus_a", "times_a", "relu"}

\* the arguments of a call as kept in the state: the buffers read (in2 is in1
\* for a unary transform), the buffer written, the per-element function
CallArgs(T, in1, in2, out, func, size) ==
  [T |-> T, in1 |-> in1, in2 |-> in2, out |-> out, func |-> func, size |-> size]

AddScalar ==
  /\ pc = "idle"
  /\ \E T \in ElemTypes, size \in 1..MaxLen, build \in Builds :
       \E m \in ArithMems(T, size), a \in ArithVals(T) :
         LET run == add_scalar(T, build, Enter(m), a, BufY, size)
         IN /\ pc' = IF run.trapped THEN "aborted" ELSE "done"
            /\ fn' = "add(a, y, size)"
            /\ args' = CallArgs(T, BufY, BufY, BufY, [op |-> "plus_a", a |-> a], size)
            /\ mem0' = m
            /\ mem' = run.mem
            /\ writes' = run.writes
            /\ UNCHANGED <<ret, calls, iter>>

AddInPlace ==
  /\ pc = "idle"
  /\ \E T \in ElemTypes, size \in 1..MaxLen, build \in Builds :
       \E m \in ArithMems(T, size), x \in {BufX, BufY} :
         LET run == add_inplace(T, build, Enter(m), x, BufY, size)
         IN /\ pc' = IF run.trapped THEN "aborted" ELSE "done"
            /\ fn' = "add(x, y, size)"
            /\ args' = CallArgs(T, x, BufY, BufY, [op |-> "plus"], size)
            /\ mem0' = m
            /\ mem' = run.mem
            /\ writes' = run.writes
            /\ UNCHANGED <<ret, calls, iter>>

Add ==
  /\ pc = "idle"
  /\ \E T \in ElemTypes, size \in 1..MaxLen, build \in Builds :
       \E m \in ArithMems(T, size), c \in {BufX, BufY, BufZ} :
         LET run == add(T, build, Enter(m), BufX, BufY, c, size)
         IN /\ pc' = IF run.trapped THEN "aborted" ELSE "done"
            /\ fn' = "add(a, b, c, size)"
            /\ args' = CallArgs(T, BufX, BufY, c, [op |-> "plus"], size)
            /\ mem0' = m
            /\ mem' = run.mem
            /\ writes' = run.writes
            /\ UNCHANGED <<ret, calls, iter>>

SubScalar ==
  /\ pc = "idle"
  /\ \E T \in ElemTypes, size \in 1..MaxLen, build \in Builds :
       \E m \in ArithMems(T, size), a \in ArithVals(T) :
         LET run == sub_scalar(T, build, Enter(m), a, BufY, size)
         IN /\ pc' = IF run.trapped THEN "aborted" ELSE "done"
            /\ fn' = "sub(a, y, size)"
            /\ args' = CallArgs(T, BufY, BufY, BufY,
                                [op |-> "plus_a", a |-> Negate(T, a).val], size)
            /\ mem0' = m
            /\ mem' = run.mem
            /\ writes' = run.writes
            /\ UNCHANGED <<ret, calls, iter>>

Sub ==
  /\ pc = "idle"
  /\ \E T \in ElemTypes, size \in 1..MaxLen, build \in Builds :
       \E m \in ArithMems(T, size), c \in {BufX, BufY, BufZ} :
         LET run == sub(T, build, Enter(m), BufX, BufY, c, size)
         IN /\ pc' = IF run.trapped THEN "aborted" ELSE "done"
            /\ fn' = "sub(a, b, c, size)"
            /\ args' = CallArgs(T, BufX, BufY, c, [op |-> "minus"], size)
            /\ mem0' = m
            /\ mem' = run.mem
            /\ writes' = run.writes
            /\ UNCHANGED <<ret, calls, iter>>

MulScalar ==
  /\ pc = "idle"
  /\ \E T \in ElemTypes, size \in 1..MaxLen, build \in Builds :
       \E m \in ArithMems(T, size), a \in ArithVals(T) :
         LET run == mul_scalar(T, build, Enter(m), a, BufY, size)
         IN /\ pc' = IF run.trapped THEN "aborted" ELSE "done"
            /\ fn' = "mul(a, y, size)"
            /\ args' = CallArgs(T, BufY, BufY, BufY, [op |-> "times_a", a |-> a], size)
            /\ mem0' = m
            /\ mem' = run.mem
            /\ writes' = run.writes
            /\ UNCHANGED <<ret, calls, iter>>

MulInPlace ==
  /\ pc = "idle"
  /\ \E T \in ElemTypes, size \in 1..MaxLen, build \in Builds :
       \E m \in ArithMems(T, size), x \in {BufX, BufY} :
         LET run == mul_inplace(T, build, Enter(m), x, BufY, size)
         IN /\ pc' = IF run.trapped THEN "aborted" ELSE "done"
            /\ fn' = "mul(x, y, size)"
            /\ args' = CallArgs(T, x, BufY, BufY, [op |-> "times"], size)
            /\ mem0' = m
            /\ mem' = run.mem
            /\ writes' = run.writes
            /\ UNCHANGED <<ret, calls, iter>>

Mul ==
  /\ pc = "idle"
  /\ \E T \in ElemTypes, size \in 1..MaxLen, build \in Builds :
       \E m \in ArithMems(T, size), c \in {BufX, BufY, BufZ} :
         LET run == mul(T, build, Enter(m), BufX, BufY, c, size)
         IN /\ pc' = IF run.trapped THEN "aborted" ELSE "done"
            /\ fn' = "mul(a, b, c, size)"
            /\ args' = CallArgs(T, BufX, BufY, c, [op |-> "times"], size)
            /\ mem0' = m
            /\ mem' = run.mem
            /\ writes' = run.writes
            /\ UNCHANGED <<ret, calls, iter>>

Relu ==
  /\ pc = "idle"
  /\ \E T \in ElemTypes, size \in 1..MaxLen, build \in Builds :
       \E m \in ArithMems(T, size), y \in {BufX, BufZ} :
         LET run == relu(T, build, Enter(m), BufX, y, size)
         IN /\ pc' = IF run.trapped THEN "aborted" ELSE "done"
            /\ fn' = "relu(x, y, size)"
            /\ args' = CallArgs(T, BufX, BufX, y, [op |-> "relu"], size)
            /\ mem0' = m
            /\ mem' = run.mem
            /\ writes' = run.writes
            /\ UNCHANGED <<ret, calls, iter>>

ReluInPlace ==
  /\ pc = "idle"
  /\ \E T \in ElemTypes, size \in 1..MaxLen, build \in Builds :
       \E m \in ArithMems(T, size) :
         LET run == relu_inplace(T, build, Enter(m), BufX, size)
         IN /\ pc' = IF run.trapped THEN "aborted" ELSE "done"
            /\ fn' = "relu(x, size)"
            /\ args' = CallArgs(T, BufX, BufX, BufX, [op |-> "relu"], size)
            /\ mem0' = m
            /\ mem' = run.mem
            /\ writes' = run.writes
            /\ UNCHANGED <<ret, calls, iter>>

\* The round trip add(a, b, c, size); sub(c, b, c2, size): its first call.
\* c is the fresh buffer Z; b is Y or a itself.
RoundTripAdd ==
  /\ pc = "idle"
  /\ \E T \in ElemTypes, size \in 1..MaxLen, build \in Builds :
       \E m \in ArithMems(T, size), b \in {BufX, BufY}, c2 \in {BufX, BufZ} :
         LET run == add(T, build, Enter(m), BufX, b, BufZ, size)
         IN /\ pc' = IF run.trapped THEN "aborted" ELSE "added"
            /\ fn' = "add(a, b, c, size); sub(c, b, c2, size)"
            /\ args' = [T |-> T, a |-> BufX, b |-> b, c |-> BufZ, c2 |-> c2,
                        size |-> size, build |-> build]
            /\ mem0' = m
            /\ mem' = run.mem
            /\ writes' = run.writes
            /\ UNCHANGED <<ret, calls, iter>>

\* its second call, on the memory the first one left
RoundTripSub ==
  /\ pc = "added"
  /\ LET run == sub(args.T, args.build, [mem |-> mem, writes |-> writes, trapped |-> FALSE],
                    args.c, args.b, args.c2, args.size)
     IN /\ pc' = IF run.trapped THEN "aborted" ELSE "done"
        /\ mem' = run.mem
        /\ writes' = run.writes
        /\ UNCHANGED <<fn, args, mem0, ret, calls, iter>>

NextArith ==
  \/ AddScalar \/ AddInPlace \/ Add
  \/ SubScalar \/ Sub
  \/ MulScalar \/ MulInPlace \/ Mul
  \/ Relu \/ ReluInPlace
  \/ RoundTripAdd \/ RoundTripSub

SpecArith == Init /\ [][NextArith]_vars

(***************************************************************************)
(* Properties of the elementwise transforms.                               *)
(***************************************************************************)
\* the calls of one transform primitive
TransformCalls ==
  {"add(a, y, size)", "add(x, y, size)", "add(a, b, c, size)",
   "sub(a, y, size)", "sub(a, b, c, size)",
   "mul(a, y, size)", "mul(x, y, size)", "mul(a, b, c, size)",
   "relu(x, y, size)", "relu(x, size)"}

RoundTrip == "add(a, b, c, size); sub(c, b, c2, size)"

\* the per-element function of the call applied to the values the input
\* buffers held at index i when the call was made
OfOriginal(i) ==
  IF args.func.op \in UnaryOps
  THEN ApplyUnary(args.T, args.func, mem0[args.in1 + i]).val
  ELSE ApplyBinary(args.T, args.func, mem0[args.in1 + i], mem0[args.in2 + i]).val

\* the same transform run from the memory of the call into the fresh buffer Z
OutOfPlace ==
  IF args.func.op \in UnaryOps
  THEN unary_transform(args.T, "wrap", Enter(mem0), args.in1, BufZ, args.size, args.func)
  ELSE binary_transform(args.T, "wrap", Enter(mem0), args.in1, args.in2, BufZ, args.size,
                        args.func)

\* C6: in-place use of the transforms is correct: when the output buffer is
\* exactly an input buffer (unary y = x, binary c = a or c = b), the output
\* holds what the same call produces out of place from the original inputs,
\* i.e. at every i the function applied to the original value(s) at index i.
C6_InPlaceEqualsOutOfPlace ==
  (pc = "done" /\ fn \in TransformCalls /\ args.out \in {args.in1, args.in2}) =>
    /\ \A i \in 0..(args.size - 1) : mem[args.out + i] = OfOriginal(i)
    /\ Slice(mem, args.out, args.size) = Slice(OutOfPlace.mem, BufZ, args.size)
    /\ \A addr \in DOMAIN mem :
         addr \notin args.out .. (args.out + args.size - 1) => mem[addr] = mem0[addr]

\* add(x, y, size) has run in place on two different buffers, the output
\* aliasing the second input, and changed every element of two
C6_Witness ==
  /\ pc = "done"
  /\ fn = "add(x, y, size)"
  /\ args.in1 = BufX /\ args.in2 = BufY /\ args.out = BufY
  /\ args.size = 2
  /\ mem[BufY] # mem0[BufY] /\ mem[BufY + 1] # mem0[BufY + 1]
  /\ mem0[BufX] # mem0[BufY]

\* the round trip has ended: both calls returned, or one of them aborted
RoundTripEnded == fn = RoundTrip /\ pc \in {"done", "aborted"}

\* c2 holds the original contents of a
RestoresA == Slice(mem, args.c2, args.size) = Slice(mem0, args.a, args.size)

AdditionsDefined ==
  \/ args.T # "int32"
  \/ \A i \in 0..(args.size - 1) : ~AddOverflows(mem0[args.a + i], mem0[args.b + i])

OpA(m, a, transpose_a, mm, kk, r, p) ==
  IF transpose_a THEN Load(m, a + p * mm + r) ELSE Load(m, a + r * kk + p)

\* element (p, col) of op(b), a k x n matrix
OpB(m, b, transpose_b, kk, nn, p, col) ==
  IF transpose_b THEN Load(m, b + col * kk + p) ELSE Load(m, b + p * nn + col)

\* sum over p < kk of op(a)[r][p] * op(b)[p][col]
RECURSIVE Dot(_, _, _, _, _, _, _, _, _, _, _)
Dot(m, a, b, transpose_a, transpose_b, mm, nn, kk, r, col, p) ==
  IF p = 0 THEN 0
  ELSE Dot(m, a, b, transpose_a, transpose_b, mm, nn, kk, r, col, p - 1)
       + OpA(m, a, transpose_a, mm, kk, r, p - 1) * OpB(m, b, transpose_b, kk, nn, p - 1, col)

\* gemm(a, b, transpose_a, transpose_b, m, n, k, alpha, beta, c): the memory
\* it leaves, its stores, and the addresses it read and wrote
gemm(m, a, b, transpose_a, transpose_b, mm, nn, kk, alpha, beta, c) ==
  LET ws == [t \in 1..(mm * nn) |->
               LET r == (t - 1) \div nn
                   col == (t - 1) % nn
               IN <<c + (t - 1),
                    alpha * Dot(m, a, b, transpose_a, transpose_b, mm, nn, kk, r, col, kk)
                      + beta * Load(m, c + (t - 1))>>]
  IN [mem    |-> ApplyWrites(m, ws),
      writes |-> ws,
      read   |-> (a .. (a + mm * kk - 1)) \cup (b .. (b + kk * nn - 1))
                   \cup (c .. (c + mm * nn - 1)),
      wrote  |-> c .. (c + mm * nn - 1)]

\* slice offsets with the c slice stepped by the size of an a slice
SliceOffsetsCSteppedAsA(i, mm, nn, kk) == [a |-> i * mm * kk, b |-> i * kk * nn, c |-> i * mm * kk]

\* const In* a_i = a + (i * m * k); const In* b_i = b + (i * k * n);
\* Out* c_i = c + (i * m * n);
SliceOffsets(i, mm, nn, kk) == [a |-> i * mm * kk, b |-> i * kk * nn, c |-> i * mm * nn]

\* The caller's layout: a (batch_size slices of m*k), then b (batch_size
\* slices of k*n), then c (batch_size slices of m*n), then one more cell;
\* the cells hold small values that differ from cell to cell.
GemmMem(batch_size, mm, nn, kk, seed) ==
  [addr \in 0..(batch_size * (mm * kk + kk * nn + mm * nn)) |-> ((addr + seed) % 3) + 1]

\* gemm_batch is entered: size_t i = 0
GemmBatchEnter ==
  /\ pc = "idle"
  /\ \E batch_size \in 0..MaxBatch, mm \in 1..MaxMNK, nn \in 1..MaxMNK, kk \in 1..MaxMNK :
       \E transpose_a \in BOOLEAN, transpose_b \in BOOLEAN,
          alpha \in {1, 2}, beta \in {0, 1}, seed \in {0, 1} :
         /\ pc' = "loop"
         /\ fn' = "gemm_batch"
         /\ args' = [a |-> 0, b |-> batch_size * mm * kk,
                     c |-> batch_size * (mm * kk + kk * nn),
                     transpose_a |-> transpose_a, transpose_b |-> transpose_b,
                     batch_size |-> batch_size, m |-> mm, n |-> nn, k |-> kk,
                     alpha |-> alpha, beta |-> beta]
         /\ mem0' = GemmMem(batch_size, mm, nn, kk, seed)
         /\ mem' = GemmMem(batch_size, mm, nn, kk, seed)
         /\ writes' = <<>>
         /\ calls' = <<>>
         /\ iter' = 0
         /\ UNCHANGED ret

\* one run of the loop body: i < batch_size, the call of gemm, ++i
GemmBatchIter ==
  /\ pc = "loop"
  /\ iter < args.batch_size
  /\ LET off == SliceOffsets(iter, args.m, args.n, args.k)
         a_i == args.a + off.a
         b_i == args.b + off.b
         c_i == args.c + off.c
         run == gemm(mem, a_i, b_i, args.transpose_a, args.transpose_b,
                     args.m, args.n, args.k, args.alpha, args.beta, c_i)
     IN /\ mem' = run.mem
        /\ writes' = writes \o run.writes
        /\ calls' = Append(calls, [a |-> a_i, b |-> b_i, c |-> c_i,
                                   transpose_a |-> args.transpose_a,
                                   transpose_b |-> args.transpose_b,
                                   m |-> args.m, n |-> args.n, k |-> args.k,
                                   alpha |-> args.alpha, beta |-> args.beta,
                                   read |-> run.read, wrote |-> run.wrote])
        /\ iter' = iter + 1
        /\ UNCHANGED <<pc, fn, args, mem0, ret>>

\* the loop ends: !(i < batch_size)
GemmBatchReturn ==
  /\ pc = "loop"
  /\ ~(iter < args.batch_size)
  /\ pc' = "done"
  /\ UNCHANGED <<fn, args, mem0, mem, writes, ret, calls, iter>>

NextGemm == GemmBatchEnter \/ GemmBatchIter \/ GemmBatchReturn

SpecGemm == Init /\ [][NextGemm]_vars

(***************************************************************************)
(* Properties of gemm_batch.                                               *)
(***************************************************************************)
\* the call of gemm the claim expects for slice i
ExpectedCall(i) ==
  [a |-> args.a + i * args.m * args.k,
   b |-> args.b + i * args.k * args.n,
   c |-> args.c + i * args.m * args.n,
   transpose_a |-> args.transpose_a, transpose_b |-> args.transpose_b,
   m |-> args.m, n |-> args.n, k |-> args.k, alpha |-> args.alpha, beta |-> args.beta]

\* a call of gemm without the record of what it read and wrote
Signature(call) ==
  [a |-> call.a, b |-> call.b, c |-> call.c,
   transpose_a |-> call.transpose_a, transpose_b |-> call.transpose_b,
   m |-> call.m, n |-> call.n, k |-> call.k, alpha |-> call.alpha, beta |-> call.beta]

\* C3: gemm_batch calls gemm exactly batch_size times, in increasing slice
\* order i = 0, 1, ..., the i-th call receiving a + i*m*k, b + i*k*n,
\* c + i*m*n and the unchanged other arguments; the slices written in c are
\* disjoint and no call reads a slice of c written by another call; with
\* batch_size = 1 the effect on c is that of one direct gemm call on the same
\* buffers, with batch_size = 0 gemm is not called and c is unchanged.
C3_GemmBatchCallsGemmPerSlice ==
  (fn = "gemm_batch") =>
    /\ Len(calls) = iter
    /\ iter <= args.batch_size
    /\ pc = "done" => Len(calls) = args.batch_size
    /\ \A j \in 1..Len(calls) : Signature(calls[j]) = ExpectedCall(j - 1)
    /\ \A j, h \in 1..Len(calls) :
         j # h => /\ calls[j].wrote \cap calls[h].wrote = {}
                  /\ calls[j].read \cap calls[h].wrote = {}
    /\ \A n \in 1..Len(writes) :
         writes[n][1] \in args.c .. (args.c + args.batch_size * args.m * args.n - 1)
    /\ (pc = "done" /\ args.batch_size = 1)
         => mem = gemm(mem0, args.a, args.b, args.transpose_a, args.transpose_b,
                       args.m, args.n, args.k, args.alpha, args.beta, args.c).mem
    /\ (pc = "done" /\ args.batch_size = 0) => (calls = <<>> /\ mem = mem0)

\* a batch of two slices with m*k, k*n and m*n all different has returned
C3_Witness ==
  /\ pc = "done"
  /\ fn = "gemm_batch"
  /\ args.batch_size = 2
  /\ args.m = 2 /\ args.n = 1 /\ args.k = 1
  /\ Len(calls) = 2
  /\ calls[2].c = args.c + 2
  /\ mem # mem0

(***************************************************************************)
(* Quantization codec: quantize (float to int8_t) and unquantize (int8_t   *)
(* to float).                                                              *)
(***************************************************************************)
\* void quantize(const In* x, Out* y, size_t size, In scale, In shift)
quantize(build, st, x, y, size, unit, scale, shift, contract) ==
  unary_transform("int8", build, st, x, y, size,
                  [op |-> "quantize", unit |-> unit, scale |-> scale, shift |-> shift,
                   contract |-> contract])

\* void unquantize(const In* x, Out* y, size_t size, Out scale, Out shift)
unquantize(build, st, x, y, size, unit, scale, shift) ==
  unary_transform("float", build, st, x, y, size,
                  [op |-> "unquantize", unit |-> unit, scale |-> scale, shift |-> shift])

\* The inputs, as counts of units.  In sixteenths: x in {-2.75, -1.75, -0.25,
\* 0, 0.5, 1.75, 3}, scale in {-2, 0.5, 1, 2, 4}, shift in {-1.25, 0, 0.25,
\* 10, 200}.  In whole numbers: values of more than 24 bits, whose product
\* with the scale 3 is rounded.
QuantInputs ==
  {[unit |-> 16, xs |-> {-44, -28, -4, 0, 8, 28, 48}, scales |-> {-32, 8, 16, 32, 64},
    shifts |-> {-20, 0, 4, 160, 3200}],
   [unit |-> 1, xs |-> {22369626, 22369628}, scales |-> {3}, shifts |-> {-67108880}]}

\* The caller's layout: x (float) at 0, the quantized buffer (int8_t) after
\* it, the unquantized buffer (float) after that; both outputs hold 0.
QuantMem(xs, size) == [addr \in 0..(3 * size - 1) |-> IF addr < size THEN xs[addr] ELSE 0]

\* the round trip quantize(x, q, ...); unquantize(q, y, ...): its first call
Quantize ==
  /\ pc = "idle"
  /\ \E inp \in QuantInputs, size \in 1..MaxQuantLen, build \in Builds, contract \in BOOLEAN :
       \E xs \in [0..(size - 1) -> inp.xs], scale \in inp.scales, shift \in inp.shifts :
         LET m == QuantMem(xs, size)
             run == quantize(build, Enter(m), 0, size, size, inp.unit, scale, shift, contract)
         IN /\ pc' = IF run.trapped THEN "aborted" ELSE "quantized"
            /\ fn' = "quantize; unquantize"
            /\ args' = [x |-> 0, q |-> size, y |-> 2 * size, size |-> size,
                        unit |-> inp.unit, scale |-> scale, shift |-> shift, build |-> build,
                        contract |-> contract]
            /\ mem0' = m
            /\ mem' = run.mem
            /\ writes' = run.writes
            /\ UNCHANGED <<ret, calls, iter>>

\* its second call, with the same scale and shift
Unquantize ==
  /\ pc = "quantized"
  /\ LET run == unquantize(args.build, [mem |-> mem, writes |-> writes, trapped |-> FALSE],
                           args.q, args.y, args.size, args.unit, args.scale, args.shift)
     IN /\ pc' = "done"
        /\ mem' = run.mem
        /\ writes' = run.writes
        /\ UNCHANGED <<fn, args, mem0, ret, calls, iter>>

NextQuant == Quantize \/ Unquantize

SpecQuant == Init /\ [][NextQuant]_vars

(***************************************************************************)
(* Properties of the quantization codec.  Reals are compared after         *)
(* multiplying through by unit or unit^2.                                  *)
(***************************************************************************)
\* unit^2 times the real number x*scale + shift, x being element i
ExactAffine(i) == mem0[args.x + i] * args.scale + args.shift * args.unit

\* the real number x*scale + shift truncated toward zero
ExactQuantized(i) == TruncDiv(ExactAffine(i), args.unit * args.unit)

\* x*scale + shift lies within the range of int8_t
InOutputRange(i) ==
  /\ ExactAffine(i) >= -128 * args.unit * args.unit
  /\ ExactAffine(i) <= 127 * args.unit * args.unit

Abs(v) == IF v >= 0 THEN v ELSE -v

\* element i after the round trip: q is the truncated x*scale + shift, and
\* the unquantized value differs from x by less than 1/|scale|
RecoversWithinStep(i) ==
  /\ mem[args.q + i] = ExactQuantized(i)
  /\ Abs(mem[args.y + i] - mem0[args.x + i]) * Abs(args.scale) < args.unit * args.unit

\* C8 as stated: for every non-zero scale, every shift and every x with
\* x*scale + shift within the range of the output type, quantize computes q =
\* x*scale + shift truncated toward zero and unquantize of q returns
\* (q - shift)/scale, which differs from x by strictly less than 1/|scale|.
C8_RoundTripWithinStep ==
  (pc = "done" /\ fn = "quantize; unquantize") =>
    \A i \in 0..(args.size - 1) : InOutputRange(i) => RecoversWithinStep(i)

\* a float operation with exact result p / q was not rounded
Unrounded(p, q) == p % q = 0 /\ (BitLen(Abs(p \div q)) < 24 \/ RoundToFloat(p, q) * q = p)

\* none of the four float operations on element i is rounded: x*scale,
\* the sum with shift, q - shift and the division by scale
FloatExact(i) ==
  LET product == mem0[args.x + i] * args.scale
      diff == mem[args.q + i] * args.unit - args.shift
  IN /\ Unrounded(product, args.unit)
     /\ Unrounded(product \div args.unit + args.shift, 1)
     /\ Unrounded(diff, 1)
     /\ Unrounded(Abs(diff) * args.unit, Abs(args.scale))

\* C8 amended: the same, for the x, scale and shift for which none of the
\* float operations x*scale, + shift, q - shift and / scale is rounded.
C8_RoundTripWithinStepWhenExact ==
  (pc = "done" /\ fn = "quantize; unquantize") =>
    \A i \in 0..(args.size - 1) :
      (InOutputRange(i) /\ FloatExact(i)) => RecoversWithinStep(i)

\* x = -1.75, scale = 2, shift = 0.25: x*scale + shift = -3.25 was truncated
\* toward zero to -3 and unquantized to -1.625
C8_Witness ==
  /\ pc = "done"
  /\ fn = "quantize; unquantize"
  /\ args.unit = 16 /\ args.scale = 32 /\ args.shift = 4
  /\ mem0[args.x] = -28
  /\ mem[args.q] = -3
  /\ mem[args.y] = -26
  /\ InOutputRange(0) /\ FloatExact(0)

====
